---- MODULE Spec2Model ----
(***************************************************************************)
(* Model of packages/lib/services/e2ee/ppk.ts: the public/private key pair *)
(* (PPK) that protects a master key, the custom encryption handler that    *)
(* plugs RSA into the EncryptionService, and the master key operations     *)
(* built on them.                                                          *)
(*                                                                         *)
(* JavaScript strings are sequences of one-character strings, Buffers are  *)
(* sequences of bytes (0..255).  Every function of ppk.ts is an operator   *)
(* that threads a trace `t` of the collaborator calls made so far and a    *)
(* set `F` of call numbers that the environment makes fail, and returns    *)
(* [ok, val, trace].                                                       *)
(***************************************************************************)
EXTENDS Integers, Sequences, FiniteSets, TLC

VARIABLES kp, env, mk, mkPlain, mkHist, res,
          localInfo, remoteInfo, masterPassword, tasks, saved, nextId

vars == <<kp, env, mk, mkPlain, mkHist, res,
          localInfo, remoteInfo, masterPassword, tasks, saved, nextId>>

cryptoVars == <<kp, env, mk, mkPlain, mkHist, res>>

syncVars == <<localInfo, remoteInfo, masterPassword, tasks, saved, nextId>>

(***************************************************************************)
(* Bounds                                                                  *)
(***************************************************************************)
MaxLen == 1

MaxKeys == 2

MaxFault == 9

MaxTasks == 2

InputChars == {"0", "a"}

Passwords == {"pw1", "pw2"}

Times == {1000}

Null == [null |-> TRUE]

HexInputs == UNION {[1..n -> InputChars] : n \in 0..MaxLen}

MkChars == {"c"}

MkContents == UNION {[1..n -> MkChars] : n \in 0..MaxLen}

FaultSets == {{}} \cup {{k} : k \in 1..MaxFault}

(***************************************************************************)
(* Results and the trace of collaborator calls                             *)
(***************************************************************************)
Ok(v, t) == [ok |-> TRUE, val |-> v, trace |-> t]

Err(e, t) == [ok |-> FALSE, val |-> e, trace |-> t]

Error(name) == [error |-> name]

Injected(t, F) == (Len(t) + 1) \in F

Log(t, name, out) == Append(t, [fn |-> name, out |-> out])

\* One call of a collaborator: fails when the environment makes it fail,
\* or when its own contract makes it fail (legit = FALSE).
Call(t, F, name, legit, v, e) ==
    IF Injected(t, F) THEN Err(Error("CollaboratorFailure"), Log(t, name, "fault"))
    ELSE IF ~legit THEN Err(e, Log(t, name, "error"))
    ELSE Ok(v, Log(t, name, "ok"))

\* The outcome of a collaborator call that itself called back into a handler
SetOut(t, i, out) == [t EXCEPT ![i].out = out]

(***************************************************************************)
(* Text encodings                                                          *)
(***************************************************************************)
HexDigits == <<"0", "1", "2", "3", "4", "5", "6", "7", "8", "9", "a", "b", "c", "d", "e", "f">>

IsHexDigit(ch) == \E i \in 1..16 : HexDigits[i] = ch

HexVal(ch) == (CHOOSE i \in 1..16 : HexDigits[i] = ch) - 1

\* charCodeAt for the characters of the model: ASCII '0'..'9' and 'a'..'f'
CharCode(ch) == IF HexVal(ch) < 10 THEN 48 + HexVal(ch) ELSE 97 + (HexVal(ch) - 10)

ReplacementChar == "?"

CharOf(b) ==
    IF b >= 48 /\ b <= 57 THEN HexDigits[b - 48 + 1]
    ELSE IF b >= 97 /\ b <= 102 THEN HexDigits[b - 97 + 11]
    ELSE ReplacementChar

\* Buffer.from(str, 'utf8')
Utf8Encode(str) == [i \in 1..Len(str) |-> CharCode(str[i])]

\* buffer.toString('utf8')
Utf8Decode(buf) == [i \in 1..Len(buf) |-> CharOf(buf[i])]

\* buffer.toString('hex')
HexEncode(buf) ==
    [i \in 1..(2 * Len(buf)) |->
        IF i % 2 = 1 THEN HexDigits[(buf[(i + 1) \div 2] \div 16) + 1]
        ELSE HexDigits[(buf[i \div 2] % 16) + 1]]

\* Buffer.from(str, 'hex'): pairs of hex digits, cut at the first invalid pair
HexPairs(str) ==
    LET n == Len(str) \div 2
        bad == {i \in 1..n : ~(IsHexDigit(str[2 * i - 1]) /\ IsHexDigit(str[2 * i]))}
    IN IF bad = {} THEN n ELSE (CHOOSE i \in bad : \A j \in bad : i <= j) - 1

HexDecode(str) == [i \in 1..HexPairs(str) |-> 16 * HexVal(str[2 * i - 1]) + HexVal(str[2 * i])]

(***************************************************************************)
(* Asymmetric Key Provider (NodeRSA).  A handle holds the key material it  *)
(* has imported; 0 is "no such component".  The cipher is a toy one: the   *)
(* ciphertext names the key it was made for, and decrypting needs the      *)
(* private component of that key.                                          *)
(***************************************************************************)
nodeRSAEncryptionScheme == "pkcs1_oaep"

nodeRSAOptions == [encryptionScheme |-> nodeRSAEncryptionScheme]

\* new NodeRSA(); keys.setOptions(nodeRSAOptions())
NewNodeRSA == [pub |-> 0, priv |-> 0, options |-> nodeRSAOptions]

KeyMaterial(i) == 16 + i

Pem(format, n) == [format |-> format, n |-> n]

\* keys.generateKeyPair(2048, 65537); yields is what the provider produced
RsaGenerateKeyPair(keys, n, yields, t, F) ==
    Call(t, F, "rsa.generateKeyPair", TRUE,
         [keys EXCEPT !.pub = IF yields \in {"pair", "publicOnly"} THEN n ELSE 0,
                      !.priv = IF yields = "pair" THEN n ELSE 0],
         Error("KeyGenerationError"))

isPrivate(keys) == keys.priv # 0

isPublic(keys) == keys.pub # 0

\* keys.exportKey(format)
RsaExportKey(keys, format, t, F) ==
    Call(t, F, "rsa.exportKey",
         IF format = "pkcs1-private-pem" THEN keys.priv # 0 ELSE keys.pub # 0,
         Pem(format, IF format = "pkcs1-private-pem" THEN keys.priv ELSE keys.pub),
         Error("ExportError"))

\* keys.importKey(pem, format)
RsaImportKey(keys, pem, format, t, F) ==
    Call(t, F, "rsa.importKey", pem.format = format /\ pem.n # 0,
         IF format = "pkcs1-private-pem"
         THEN [keys EXCEPT !.priv = pem.n, !.pub = pem.n]
         ELSE [keys EXCEPT !.pub = pem.n],
         Error("ImportError"))

RsaEncryptBytes(n, buf) == <<n>> \o [i \in 1..Len(buf) |-> (buf[i] + n) % 256]

RsaDecryptBytes(n, buf) == [i \in 1..(Len(buf) - 1) |-> (buf[i + 1] + 256 - n) % 256]

\* buffer.toString(encoding)
BufferToString(buf, encoding) == IF encoding = "hex" THEN HexEncode(buf) ELSE Utf8Decode(buf)

\* Buffer.from(str, encoding)
BufferFrom(str, encoding) == IF encoding = "hex" THEN HexDecode(str) ELSE Utf8Encode(str)

\* nodeRSA.encrypt(str, encoding): the string is read as UTF-8 (the default
\* source encoding), the ciphertext is returned in the given encoding
RsaEncrypt(keys, str, encoding, t, F) ==
    Call(t, F, "rsa.encrypt", keys.pub # 0,
         BufferToString(RsaEncryptBytes(keys.pub, BufferFrom(str, "utf8")), encoding),
         Error("EncryptionError"))

\* nodeRSA.decrypt(buffer, encoding)
RsaDecrypt(keys, buf, encoding, t, F) ==
    IF keys.priv = 0
    THEN Call(t, F, "rsa.decrypt", FALSE, <<>>, Error("NoPrivateKeyError"))
    ELSE Call(t, F, "rsa.decrypt", Len(buf) >= 1 /\ buf[1] = keys.priv,
              BufferToString(RsaDecryptBytes(keys.priv, buf), encoding),
              Error("DecryptionError"))

(***************************************************************************)
(* Encryption Service, password schemes                                    *)
(***************************************************************************)
SJCL4 == "SJCL4"

Custom == "Custom"

defaultMasterKeyEncryptionMethod == SJCL4

SymCipher(method, password, plainText) == [method |-> method, key |-> password, plain |-> plainText]

\* encryptionService.encrypt(method, password, plainText)
ServiceEncrypt(method, password, plainText, t, F) ==
    Call(t, F, "service.encrypt", TRUE, SymCipher(method, password, plainText),
         Error("EncryptionError"))

\* encryptionService.decrypt(method, password, cipherText)
ServiceDecrypt(method, password, cipherText, t, F) ==
    Call(t, F, "service.decrypt",
         cipherText.method = method /\ cipherText.key = password,
         cipherText.plain, Error("DecryptionError"))

(***************************************************************************)
(* ppk.ts                                                                  *)
(***************************************************************************)
encryptPrivateKey(password, plainText, t, F) ==
    LET r == ServiceEncrypt(SJCL4, password, plainText, t, F)
    IN IF r.ok THEN Ok([encryptionMethod |-> SJCL4, ciphertext |-> r.val], r.trace) ELSE r

decryptPrivateKey(encryptedKey, password, t, F) ==
    ServiceDecrypt(encryptedKey.encryptionMethod, password, encryptedKey.ciphertext, t, F)

\* n: the key material the provider generates; yields: what it produced;
\* id: uuid.createNano(); now: Date.now()
generateKeyPair(password, n, yields, id, now, t, F) ==
    LET g == RsaGenerateKeyPair(NewNodeRSA, n, yields, t, F)
    IN IF ~g.ok THEN g
       ELSE IF ~isPrivate(g.val) THEN Err(Error("No private key was generated"), g.trace)
       ELSE IF ~isPublic(g.val) THEN Err(Error("No public key was generated"), g.trace)
       ELSE LET x == RsaExportKey(g.val, "pkcs1-private-pem", g.trace, F)
            IN IF ~x.ok THEN x
               ELSE LET e == encryptPrivateKey(password, x.val, x.trace, F)
                    IN IF ~e.ok THEN e
                       ELSE LET p == RsaExportKey(g.val, "pkcs1-public-pem", e.trace, F)
                            IN IF ~p.ok THEN p
                               ELSE Ok([id |-> id, privateKey |-> e.val,
                                        publicKey |-> p.val, createdTime |-> now],
                                       p.trace)

loadPpk(ppk, password, t0, F) ==
    LET t == Log(t0, "loadPpk", "enter")
        a == RsaImportKey(NewNodeRSA, ppk.publicKey, "pkcs1-public-pem", t, F)
    IN IF ~a.ok THEN a
       ELSE LET d == decryptPrivateKey(ppk.privateKey, password, a.trace, F)
            IN IF ~d.ok THEN d
               ELSE RsaImportKey(a.val, d.val, "pkcs1-private-pem", d.trace, F)

loadPublicKey(publicKey, t, F) ==
    RsaImportKey(NewNodeRSA, publicKey, "pkcs1-public-pem", Log(t, "loadPublicKey", "enter"), F)

\* ppkPasswordIsValid without the try/catch
ppkPasswordIsValid_NoCatch(ppk, password, t, F) ==
    IF ppk = Null THEN Err(Error("PPK is undefined"), t)
    ELSE LET r == loadPpk(ppk, password, t, F)
         IN IF ~r.ok THEN r ELSE Ok(TRUE, r.trace)

ppkPasswordIsValid(ppk, password, t, F) ==
    IF ppk = Null THEN Err(Error("PPK is undefined"), t)
    ELSE LET r == loadPpk(ppk, password, t, F)
         IN IF ~r.ok THEN Ok(FALSE, r.trace) ELSE Ok(TRUE, r.trace)


(***************************************************************************)
(* The handler's envelope.  A text is either not JSON, the JSON text       *)
(* "null", or a JSON object with some of the fields ppkId, scheme and      *)
(* ciphertext.                                                             *)
(***************************************************************************)
EnvelopeFields == {"ppkId", "scheme", "ciphertext"}

JSONStringify(obj) ==
    [syntax |-> "object", fields |-> EnvelopeFields,
     ppkId |-> obj.ppkId, scheme |-> obj.scheme, ciphertext |-> obj.ciphertext]

\* JSON.parse(text)
JSONParse(text, t) ==
    IF text.syntax = "invalid" THEN Err(Error("SyntaxError"), t) ELSE Ok(text, t)

\* obj.field, as printed in a template string
Show(parsed, field) == IF field \in parsed.fields THEN parsed[field] ELSE "undefined"

ppkEncryptionHandler(ppkId, nodeRSA) == [context |-> [nodeRSA |-> nodeRSA, ppkId |-> ppkId]]

encrypt(context, hexaBytes, t, F) ==
    LET c == RsaEncrypt(context.nodeRSA, hexaBytes, "hex", t, F)
    IN IF ~c.ok THEN c
       ELSE Ok(JSONStringify([ppkId |-> context.ppkId,
                              scheme |-> nodeRSAEncryptionScheme,
                              ciphertext |-> c.val]), c.trace)

KeyMismatch(needs, using) == [error |-> "Needs private key", needs |-> needs, using |-> using]

\* decrypt without the comparison of the envelope's id with the handler's
decrypt_NoIdCheck(context, ciphertext, t, F) ==
    LET p == JSONParse(ciphertext, t)
    IN IF ~p.ok THEN p
       ELSE LET parsed == p.val
            IN IF parsed.syntax = "null" THEN Err(Error("TypeError"), t)
               ELSE IF "ciphertext" \notin parsed.fields THEN Err(Error("TypeError"), t)
               ELSE RsaDecrypt(context.nodeRSA, BufferFrom(parsed.ciphertext, "hex"), "utf8", t, F)

\* decrypt that returns the recovered bytes hex-encoded
decrypt_HexOut(context, ciphertext, t, F) ==
    LET p == JSONParse(ciphertext, t)
    IN IF ~p.ok THEN p
       ELSE LET parsed == p.val
            IN IF parsed.syntax = "null" THEN Err(Error("TypeError"), t)
               ELSE IF "ppkId" \notin parsed.fields \/ parsed.ppkId # context.ppkId
                    THEN Err(KeyMismatch(Show(parsed, "ppkId"), context.ppkId), t)
               ELSE IF "ciphertext" \notin parsed.fields THEN Err(Error("TypeError"), t)
               ELSE RsaDecrypt(context.nodeRSA, BufferFrom(parsed.ciphertext, "hex"), "hex", t, F)

decrypt(context, ciphertext, t, F) ==
    LET p == JSONParse(ciphertext, t)
    IN IF ~p.ok THEN p
       ELSE LET parsed == p.val
            IN IF parsed.syntax = "null" THEN Err(Error("TypeError"), t)
               ELSE IF "ppkId" \notin parsed.fields \/ parsed.ppkId # context.ppkId
                    THEN Err(KeyMismatch(Show(parsed, "ppkId"), context.ppkId), t)
               ELSE IF "ciphertext" \notin parsed.fields THEN Err(Error("TypeError"), t)
               ELSE RsaDecrypt(context.nodeRSA, BufferFrom(parsed.ciphertext, "hex"), "utf8", t, F)

(***************************************************************************)
(* Encryption Service, master keys                                         *)
(***************************************************************************)
NoHandler == Null

NullMethod == "null"

\* { ...a, ...b }
Merge(a, b) == [f \in (DOMAIN a) \cup (DOMAIN b) |-> IF f \in DOMAIN b THEN b[f] ELSE a[f]]

\* A call of the service that may call back into a handler: r is what the
\* service computes once the call is logged
ServiceCall(t, F, name, r) ==
    IF Injected(t, F) THEN Err(Error("CollaboratorFailure"), Log(t, name, "fault"))
    ELSE IF r.ok THEN r
    ELSE Err(r.val, SetOut(r.trace, Len(t) + 1, "error"))

EncryptMasterKeyContent(method, hexaBytes, password, handler, t, F) ==
    LET m == IF method = NullMethod THEN defaultMasterKeyEncryptionMethod ELSE method
    IN IF handler # NoHandler
       THEN LET r == encrypt(handler.context, hexaBytes, t, F)
            IN IF ~r.ok THEN r
               ELSE Ok([checksum |-> "", encryption_method |-> Custom, content |-> r.val],
                       r.trace)
       ELSE Ok([checksum |-> "", encryption_method |-> m,
                content |-> SymCipher(m, password, hexaBytes)], t)

DecryptMasterKeyContent(masterKey, password, handler, t, F) ==
    IF masterKey.encryption_method = Custom
    THEN IF handler = NoHandler THEN Err(Error("NoEncryptionHandler"), t)
         ELSE decrypt(handler.context, masterKey.content, t, F)
    ELSE IF masterKey.content.method = masterKey.encryption_method
            /\ masterKey.content.key = password
         THEN Ok(masterKey.content.plain, t)
         ELSE Err(Error("DecryptionError"), t)

\* service.encryptMasterKeyContent(method, hexaBytes, password, { encryptionHandler })
ServiceEncryptMasterKeyContent(method, hexaBytes, password, handler, t, F) ==
    ServiceCall(t, F, "service.encryptMasterKeyContent",
        EncryptMasterKeyContent(method, hexaBytes, password, handler,
                                Log(t, "service.encryptMasterKeyContent", "ok"), F))

\* service.decryptMasterKeyContent(masterKey, password, { encryptionHandler })
ServiceDecryptMasterKeyContent(masterKey, password, handler, t, F) ==
    ServiceCall(t, F, "service.decryptMasterKeyContent",
        DecryptMasterKeyContent(masterKey, password, handler,
                                Log(t, "service.decryptMasterKeyContent", "ok"), F))

\* service.generateMasterKey(password, { encryptionMethod, encryptionHandler });
\* bytes are the random bytes the service draws, now is Date.now()
ServiceGenerateMasterKey(password, method, handler, bytes, now, t, F) ==
    ServiceCall(t, F, "service.generateMasterKey",
        LET r == EncryptMasterKeyContent(method, bytes, password, handler,
                                         Log(t, "service.generateMasterKey", "ok"), F)
        IN IF ~r.ok THEN r
           ELSE Ok(Merge(r.val, [created_time |-> now, updated_time |-> now]), r.trace))

\* service.reencryptMasterKey(masterKey, password, decryptOptions, encryptOptions)
ServiceReencryptMasterKey(masterKey, password, decryptHandler, encryptHandler, t, F) ==
    ServiceCall(t, F, "service.reencryptMasterKey",
        LET d == DecryptMasterKeyContent(masterKey, password, decryptHandler,
                                         Log(t, "service.reencryptMasterKey", "ok"), F)
        IN IF ~d.ok THEN d
           ELSE LET e == EncryptMasterKeyContent(defaultMasterKeyEncryptionMethod, d.val,
                                                 password, encryptHandler, d.trace, F)
                IN IF ~e.ok THEN e ELSE Ok(Merge(masterKey, e.val), e.trace))

(***************************************************************************)
(* ppk.ts, master key operations                                           *)
(***************************************************************************)
ppkGenerateMasterKey(ppk, password, bytes, now, t, F) ==
    LET l == loadPpk(ppk, password, t, F)
    IN IF ~l.ok THEN l
       ELSE ServiceGenerateMasterKey("", Custom, ppkEncryptionHandler(ppk.id, l.val),
                                     bytes, now, l.trace, F)

\* ppkDecryptMasterKeyContent that validates the password before it loads the key
ppkDecryptMasterKeyContent_LoadsTwice(masterKey, ppk, password, t, F) ==
    LET v == ppkPasswordIsValid(ppk, password, t, F)
        l == loadPpk(ppk, password, v.trace, F)
    IN IF ~l.ok THEN l
       ELSE ServiceDecryptMasterKeyContent(masterKey, "", ppkEncryptionHandler(ppk.id, l.val),
                                           l.trace, F)

ppkDecryptMasterKeyContent(masterKey, ppk, password, t, F) ==
    LET l == loadPpk(ppk, password, t, F)
    IN IF ~l.ok THEN l
       ELSE ServiceDecryptMasterKeyContent(masterKey, "", ppkEncryptionHandler(ppk.id, l.val),
                                           l.trace, F)

\* reencryptFromPasswordToPublicKey that merges the wrong way round:
\* { ...newContent, ...masterKey }
reencryptFromPasswordToPublicKey_OldWins(masterKey, decryptionPassword, encryptionPublicKey, t, F) ==
    LET l == loadPublicKey(encryptionPublicKey.publicKey, t, F)
    IN IF ~l.ok THEN l
       ELSE LET encryptionHandler == ppkEncryptionHandler(encryptionPublicKey.id, l.val)
                plainText == ServiceDecryptMasterKeyContent(masterKey, decryptionPassword,
                                                            NoHandler, l.trace, F)
            IN IF ~plainText.ok THEN plainText
               ELSE LET newContent == ServiceEncryptMasterKeyContent(Custom, plainText.val, "",
                                          encryptionHandler, plainText.trace, F)
                    IN IF ~newContent.ok THEN newContent
                       ELSE Ok(Merge(newContent.val, masterKey), newContent.trace)

reencryptFromPasswordToPublicKey(masterKey, decryptionPassword, encryptionPublicKey, t, F) ==
    LET l == loadPublicKey(encryptionPublicKey.publicKey, t, F)
    IN IF ~l.ok THEN l
       ELSE LET encryptionHandler == ppkEncryptionHandler(encryptionPublicKey.id, l.val)
                plainText == ServiceDecryptMasterKeyContent(masterKey, decryptionPassword,
                                                            NoHandler, l.trace, F)
            IN IF ~plainText.ok THEN plainText
               ELSE LET newContent == ServiceEncryptMasterKeyContent(Custom, plainText.val, "",
                                          encryptionHandler, plainText.trace, F)
                    IN IF ~newContent.ok THEN newContent
                       ELSE Ok(Merge(masterKey, newContent.val), newContent.trace)

\* reencryptFromPublicKeyToPassword that encrypts under the decryption password
reencryptFromPublicKeyToPassword_WrongPassword(masterKey, decryptionPpk, decryptionPassword, encryptionPassword, t, F) ==
    LET l == loadPpk(decryptionPpk, decryptionPassword, t, F)
    IN IF ~l.ok THEN l
       ELSE LET decryptionHandler == ppkEncryptionHandler(decryptionPpk.id, l.val)
                plainText == ServiceDecryptMasterKeyContent(masterKey, "", decryptionHandler,
                                                            l.trace, F)
            IN IF ~plainText.ok THEN plainText
               ELSE LET newContent == ServiceEncryptMasterKeyContent(NullMethod, plainText.val,
                                          decryptionPassword, NoHandler, plainText.trace, F)
                    IN IF ~newContent.ok THEN newContent
                       ELSE Ok(Merge(masterKey, newContent.val), newContent.trace)

\* reencryptFromPublicKeyToPassword that returns the master key as it was when
\* the decryption fails
reencryptFromPublicKeyToPassword_Swallow(masterKey, decryptionPpk, decryptionPassword, encryptionPassword, t, F) ==
    LET l == loadPpk(decryptionPpk, decryptionPassword, t, F)
    IN IF ~l.ok THEN l
       ELSE LET decryptionHandler == ppkEncryptionHandler(decryptionPpk.id, l.val)
                plainText == ServiceDecryptMasterKeyContent(masterKey, "", decryptionHandler,
                                                            l.trace, F)
            IN IF ~plainText.ok THEN Ok(masterKey, plainText.trace)
               ELSE LET newContent == ServiceEncryptMasterKeyContent(NullMethod, plainText.val,
                                          encryptionPassword, NoHandler, plainText.trace, F)
                    IN IF ~newContent.ok THEN newContent
                       ELSE Ok(Merge(masterKey, newContent.val), newContent.trace)

reencryptFromPublicKeyToPassword(masterKey, decryptionPpk, decryptionPassword, encryptionPassword, t, F) ==
    LET l == loadPpk(decryptionPpk, decryptionPassword, t, F)
    IN IF ~l.ok THEN l
       ELSE LET decryptionHandler == ppkEncryptionHandler(decryptionPpk.id, l.val)
                plainText == ServiceDecryptMasterKeyContent(masterKey, "", decryptionHandler,
                                                            l.trace, F)
            IN IF ~plainText.ok THEN plainText
               ELSE LET newContent == ServiceEncryptMasterKeyContent(NullMethod, plainText.val,
                                          encryptionPassword, NoHandler, plainText.trace, F)
                    IN IF ~newContent.ok THEN newContent
                       ELSE Ok(Merge(masterKey, newContent.val), newContent.trace)

ppkReencryptMasterKey(masterKey, decryptionPpk, decryptionPassword, encryptionPublicKey, t, F) ==
    LET e == loadPublicKey(encryptionPublicKey.publicKey, t, F)
    IN IF ~e.ok THEN e
       ELSE LET d == loadPpk(decryptionPpk, decryptionPassword, e.trace, F)
            IN IF ~d.ok THEN d
               ELSE ServiceReencryptMasterKey(masterKey, "",
                        ppkEncryptionHandler(decryptionPpk.id, d.val),
                        ppkEncryptionHandler(encryptionPublicKey.id, e.val), d.trace, F)


(***************************************************************************)
(* State: the key pairs the caller holds (with the password each was       *)
(* generated with), the last envelope a handler produced, the master key   *)
(* the caller holds (with the content it protects and the operations that  *)
(* made it), and the outcome of the last operation.                        *)
(***************************************************************************)
\* uuid.createNano(): the i-th identifier drawn
IdOf(i) == <<"ppk0", "ppk1", "ppk2", "ppk3", "ppk4", "ppk5", "ppk6", "ppk7">>[i + 1]

NoEnvelope == [slot |-> 0]

Made(op, slot) == [op |-> op, slot |-> slot]

\* encryptWithPassword(c, p): a master key whose content c is protected by password p
encryptWithPassword(c, p) ==
    Merge([id |-> "mk1"], EncryptMasterKeyContent(NullMethod, c, p, NoHandler, <<>>, {}).val)

NoResult == [op |-> "none"]

NoFaults == {{}}

\* A call of setPpkIfNotExist or generateKeyPairAndSave that has not begun
Idle ==
    [pc |-> "idle", kind |-> "", order |-> 0, entry |-> Null, ok |-> FALSE, ppk |-> Null,
     out |-> ""]

NoCalls ==
    /\ tasks = [i \in 1..MaxTasks |-> Idle]
    /\ saved = <<>>
    /\ nextId = 1

InitSync ==
    /\ localInfo = [ppk |-> Null, activeMasterKey |-> FALSE]
    /\ remoteInfo = [ppk |-> Null]
    /\ masterPassword = ""
    /\ NoCalls

InitCrypto ==
    /\ env = NoEnvelope
    /\ \E c \in MkContents, p \in Passwords :
          /\ mk = encryptWithPassword(c, p)
          /\ mkPlain = c
    /\ mkHist = <<Made("none", 0), Made("encryptWithPassword", 0)>>
    /\ res = NoResult

Init ==
    /\ kp = <<>>
    /\ InitCrypto
    /\ InitSync

Outcome(op, slot, password, r) ==
    [op |-> op, slot |-> slot, password |-> password, ok |-> r.ok, val |-> r.val,
     trace |-> r.trace]

\* keep: whether the caller keeps what the operation returned
GenerateKeyPair(password, yields, now, F, keep) ==
    /\ keep => Len(kp) < MaxKeys
    /\ LET i == Len(kp) + 1
           r == generateKeyPair(password, KeyMaterial(i), yields, IdOf(i), now, <<>>, F)
       IN /\ kp' = IF r.ok /\ keep THEN Append(kp, [ppk |-> r.val, pw |-> password]) ELSE kp
          /\ res' = Outcome("generateKeyPair", i, password, r)
    /\ UNCHANGED <<env, mk, mkPlain, mkHist, syncVars>>

PpkOf(i) == IF i = 0 THEN Null ELSE kp[i].ppk

PpkPasswordIsValid(i, password, F) ==
    /\ res' = Outcome("ppkPasswordIsValid", i, password,
                      ppkPasswordIsValid(PpkOf(i), password, <<>>, F))
    /\ UNCHANGED <<kp, env, mk, mkPlain, mkHist, syncVars>>

PpkGenerateMasterKey(i, password, bytes, now, F, keep) ==
    /\ LET r == ppkGenerateMasterKey(kp[i].ppk, password, bytes, now, <<>>, F)
       IN /\ res' = Outcome("ppkGenerateMasterKey", i, password, r)
          /\ IF r.ok /\ keep
             THEN /\ mk' = r.val
                  /\ mkPlain' = bytes
                  /\ mkHist' = <<Made("none", 0), Made("ppkGenerateMasterKey", i)>>
             ELSE UNCHANGED <<mk, mkPlain, mkHist>>
    /\ UNCHANGED <<kp, env, syncVars>>

PpkDecryptMasterKeyContent(i, password, F) ==
    /\ res' = Outcome("ppkDecryptMasterKeyContent", i, password,
                      ppkDecryptMasterKeyContent(mk, kp[i].ppk, password, <<>>, F))
    /\ UNCHANGED <<kp, env, mk, mkPlain, mkHist, syncVars>>

\* A re-encryption returns the replacement entity
Replace(op, slot, password, r, keep) ==
    /\ res' = Outcome(op, slot, password, r)
    /\ IF r.ok /\ keep
       THEN /\ mk' = r.val
            /\ mkHist' = <<Made(mkHist[2].op, 0), Made(op, slot)>>
       ELSE UNCHANGED <<mk, mkHist>>
    /\ UNCHANGED <<kp, env, mkPlain, syncVars>>

ReencryptFromPasswordToPublicKey(decryptionPassword, i, F, keep) ==
    Replace("reencryptFromPasswordToPublicKey", i, decryptionPassword,
            reencryptFromPasswordToPublicKey(mk, decryptionPassword, kp[i].ppk, <<>>, F), keep)

ReencryptFromPublicKeyToPassword(i, decryptionPassword, encryptionPassword, F, keep) ==
    Replace("reencryptFromPublicKeyToPassword", i, encryptionPassword,
            reencryptFromPublicKeyToPassword(mk, kp[i].ppk, decryptionPassword,
                                             encryptionPassword, <<>>, F), keep)

PpkReencryptMasterKey(i, decryptionPassword, j, F, keep) ==
    Replace("ppkReencryptMasterKey", j, decryptionPassword,
            ppkReencryptMasterKey(mk, kp[i].ppk, decryptionPassword, kp[j].ppk, <<>>, F), keep)

GenOutcomes == {"pair", "publicOnly"}

Slots == 1..Len(kp)

Operations(FS, keep) ==
    \/ \E p \in Passwords, y \in GenOutcomes, now \in Times, F \in FS :
          GenerateKeyPair(p, y, now, F, keep)
    \/ \E i \in {0} \cup Slots, p \in Passwords, F \in FS : PpkPasswordIsValid(i, p, F)
    \/ \E i \in Slots, p \in Passwords, b \in MkContents, now \in Times, F \in FS :
          PpkGenerateMasterKey(i, p, b, now, F, keep)
    \/ \E i \in Slots, p \in Passwords, F \in FS : PpkDecryptMasterKeyContent(i, p, F)
    \/ \E i \in Slots, p \in Passwords, F \in FS :
          ReencryptFromPasswordToPublicKey(p, i, F, keep)
    \/ \E i \in Slots, p \in Passwords, q \in Passwords, F \in FS :
          ReencryptFromPublicKeyToPassword(i, p, q, F, keep)
    \/ \E i \in Slots, j \in Slots, p \in Passwords, F \in FS :
          PpkReencryptMasterKey(i, p, j, F, keep)

\* The collaborators work and the caller keeps every result
Next == Operations(NoFaults, TRUE)

Spec == Init /\ [][Next]_vars

\* The caller holds key pairs and a master key; any one collaborator call
\* may fail, and the results are only observed
GeneratedKeyPair(i, p, now) ==
    [ppk |-> generateKeyPair(p, KeyMaterial(i), "pair", IdOf(i), now, <<>>, {}).val, pw |-> p]

InitFaults ==
    /\ \E p \in Passwords, now \in Times :
          kp = [i \in 1..MaxKeys |-> GeneratedKeyPair(i, p, now)]
    /\ env = NoEnvelope
    /\ res = NoResult
    /\ \E c \in MkContents, p \in Passwords :
          /\ mkPlain = c
          /\ \/ /\ mk = encryptWithPassword(c, p)
                /\ mkHist = <<Made("none", 0), Made("encryptWithPassword", 0)>>
             \/ \E i \in 1..MaxKeys :
                   /\ mk = reencryptFromPasswordToPublicKey(encryptWithPassword(c, p), p,
                               GeneratedKeyPair(i, p, 0).ppk, <<>>, {}).val
                   /\ mkHist = <<Made("encryptWithPassword", 0),
                                 Made("reencryptFromPasswordToPublicKey", i)>>
    /\ InitSync

NextFaults == Operations(FaultSets, FALSE)

SpecFaults == InitFaults /\ [][NextFaults]_vars


(***************************************************************************)
(* The handler used directly: handler(k) is built over the full handle of  *)
(* k or over its public key alone.                                         *)
(***************************************************************************)
HandleKinds == {"full", "public"}

HandleOf(i, kind) ==
    IF kind = "full" THEN loadPpk(kp[i].ppk, kp[i].pw, <<>>, {}).val
    ELSE loadPublicKey(kp[i].ppk.publicKey, <<>>, {}).val

HandlerOf(i, kind) == ppkEncryptionHandler(kp[i].ppk.id, HandleOf(i, kind))

HandlerOutcome(op, slot, kind, text, r) ==
    [op |-> op, slot |-> slot, kind |-> kind, text |-> text, ok |-> r.ok, val |-> r.val,
     trace |-> r.trace]

NoText == [syntax |-> "invalid", fields |-> {}, ppkId |-> "", scheme |-> "", ciphertext |-> <<>>]

HandlerEncrypt(i, kind, hexaBytes) ==
    /\ LET r == encrypt(HandlerOf(i, kind).context, hexaBytes, <<>>, {})
       IN /\ res' = HandlerOutcome("encrypt", i, kind, IF r.ok THEN r.val ELSE NoText, r)
          /\ env' = IF r.ok THEN [slot |-> i, b |-> hexaBytes, text |-> r.val] ELSE env
    /\ UNCHANGED <<kp, mk, mkPlain, mkHist, syncVars>>

\* The texts a caller may hand to decrypt: the last envelope, and that envelope
\* damaged or readdressed
Only(text, fs) ==
    [syntax |-> text.syntax, fields |-> fs,
     ppkId |-> IF "ppkId" \in fs THEN text.ppkId ELSE "",
     scheme |-> IF "scheme" \in fs THEN text.scheme ELSE "",
     ciphertext |-> IF "ciphertext" \in fs THEN text.ciphertext ELSE <<>>]

Texts ==
    IF env.slot = 0 THEN {NoText}
    ELSE {Only(env.text, fs) : fs \in SUBSET EnvelopeFields}
         \cup {[env.text EXCEPT !.ppkId = IdOf(k)] : k \in 1..(MaxKeys + 1)}
         \cup {[env.text EXCEPT !.ciphertext = SubSeq(@, 1, Len(@) - 1)]}
         \cup {[NoText EXCEPT !.syntax = x] : x \in {"invalid", "null"}}

HandlerDecrypt(j, kind, text) ==
    /\ res' = HandlerOutcome("decrypt", j, kind, text,
                             decrypt(HandlerOf(j, kind).context, text, <<>>, {}))
    /\ UNCHANGED <<kp, env, mk, mkPlain, mkHist, syncVars>>

InitHandler ==
    /\ \E p \in Passwords, now \in Times :
          kp = [i \in 1..MaxKeys |-> GeneratedKeyPair(i, p, now)]
    /\ env = NoEnvelope
    /\ mk = encryptWithPassword(<<>>, "pw1")
    /\ mkPlain = <<>>
    /\ mkHist = <<Made("none", 0), Made("encryptWithPassword", 0)>>
    /\ res = NoResult
    /\ InitSync

NextHandler ==
    \/ \E i \in Slots, kind \in HandleKinds, b \in HexInputs : HandlerEncrypt(i, kind, b)
    \/ \E j \in Slots, kind \in HandleKinds, text \in Texts : HandlerDecrypt(j, kind, text)

SpecHandler == InitHandler /\ [][NextHandler]_vars


(***************************************************************************)
(* generateKeyPairAndSave and setPpkIfNotExist on a shared localInfo.      *)
(* A call runs from one await to the next without interruption:            *)
(*   begin      up to the await of encryptionService.encrypt (line 25),    *)
(*   encrypted  generateKeyPair resumes and returns the key pair,          *)
(*   assign     generateKeyPairAndSave resumes at line 59, assigns and     *)
(*              saves.                                                     *)
(***************************************************************************)
\* A key pair that was there before any call
OldPpk == generateKeyPair("pw1", KeyMaterial(0), "pair", IdOf(0), 0, <<>>, {}).val

\* getActiveMasterKey(localInfo)
getActiveMasterKey(info) == info.activeMasterKey

\* getMasterPassword(throwIfNotSet)
getMasterPassword(throwIfNotSet) ==
    IF masterPassword = "" /\ throwIfNotSet THEN Err(Error("Master password is not set"), <<>>)
    ELSE Ok(masterPassword, <<>>)

Snapshot == [localPpk |-> localInfo.ppk, remotePpk |-> remoteInfo.ppk,
             activeMasterKey |-> localInfo.activeMasterKey, password |-> masterPassword,
             saves |-> Len(saved)]

Begun == {i \in 1..MaxTasks : tasks[i].pc # "idle"}

InFlight == {i \in 1..MaxTasks : tasks[i].pc \notin {"idle", "done"}}

Called(kind) ==
    [Idle EXCEPT !.kind = kind, !.order = Cardinality(Begun) + 1, !.entry = Snapshot]

Finish(c, out) == [c EXCEPT !.pc = "done", !.out = out]

\* generateKeyPairAndSave up to its first suspension
BeginGenerate(t, c, password, yields, now, F) ==
    LET r == generateKeyPair(password, KeyMaterial(nextId), yields, IdOf(nextId), now, <<>>, F)
        suspended == \E k \in 1..Len(r.trace) : r.trace[k].fn = "service.encrypt"
    IN /\ nextId' = nextId + 1
       /\ tasks' = [tasks EXCEPT ![t] =
                       IF suspended
                       THEN [c EXCEPT !.pc = "encrypting", !.ok = r.ok,
                                      !.ppk = IF r.ok THEN r.val ELSE Null]
                       ELSE Finish(c, "error")]

CallGenerateKeyPairAndSave(t, password, yields, now, F) ==
    /\ tasks[t].pc = "idle"
    /\ BeginGenerate(t, Called("generateKeyPairAndSave"), password, yields, now, F)
    /\ UNCHANGED <<localInfo, remoteInfo, masterPassword, saved, cryptoVars>>

\* setPpkIfNotExist that looks at remoteInfo.ppk only
CallSetPpkIfNotExist_RemoteOnly(t, yields, now, F) ==
    /\ tasks[t].pc = "idle"
    /\ LET c == Called("setPpkIfNotExist")
       IN IF remoteInfo.ppk # Null
          THEN tasks' = [tasks EXCEPT ![t] = Finish(c, "noop")] /\ UNCHANGED nextId
          ELSE IF ~getActiveMasterKey(localInfo)
          THEN tasks' = [tasks EXCEPT ![t] = Finish(c, "noop")] /\ UNCHANGED nextId
          ELSE IF getMasterPassword(FALSE).val = ""
          THEN tasks' = [tasks EXCEPT ![t] = Finish(c, "noop")] /\ UNCHANGED nextId
          ELSE BeginGenerate(t, c, getMasterPassword(TRUE).val, yields, now, F)
    /\ UNCHANGED <<localInfo, remoteInfo, masterPassword, saved, cryptoVars>>

CallSetPpkIfNotExist(t, yields, now, F) ==
    /\ tasks[t].pc = "idle"
    /\ LET c == Called("setPpkIfNotExist")
       IN IF localInfo.ppk # Null \/ remoteInfo.ppk # Null
          THEN tasks' = [tasks EXCEPT ![t] = Finish(c, "noop")] /\ UNCHANGED nextId
          ELSE IF ~getActiveMasterKey(localInfo)
          THEN tasks' = [tasks EXCEPT ![t] = Finish(c, "noop")] /\ UNCHANGED nextId
          ELSE IF getMasterPassword(FALSE).val = ""
          THEN tasks' = [tasks EXCEPT ![t] = Finish(c, "noop")] /\ UNCHANGED nextId
          ELSE BeginGenerate(t, c, getMasterPassword(TRUE).val, yields, now, F)
    /\ UNCHANGED <<localInfo, remoteInfo, masterPassword, saved, cryptoVars>>

\* encryptionService.encrypt settles; generateKeyPair returns or throws
Encrypted(t) ==
    /\ tasks[t].pc = "encrypting"
    /\ tasks' = [tasks EXCEPT ![t] =
                    IF tasks[t].ok THEN [@ EXCEPT !.pc = "generated"] ELSE Finish(@, "error")]
    /\ UNCHANGED <<localInfo, remoteInfo, masterPassword, saved, nextId, cryptoVars>>

\* saveLocalSyncInfo(localInfo): what is saved is what localInfo holds
saveLocalSyncInfo(t, info) == Append(saved, [by |-> t, id |-> info.ppk.id])

\* localInfo.ppk = <the key pair>; saveLocalSyncInfo(localInfo); return localInfo.ppk
AssignAndSave(t) ==
    /\ tasks[t].pc = "generated"
    /\ localInfo' = [localInfo EXCEPT !.ppk = tasks[t].ppk]
    /\ saved' = saveLocalSyncInfo(t, localInfo')
    /\ tasks' = [tasks EXCEPT ![t] = Finish(@, "saved")]
    /\ UNCHANGED <<remoteInfo, masterPassword, nextId, cryptoVars>>

InitWorld ==
    /\ localInfo \in [ppk : {Null, OldPpk}, activeMasterKey : BOOLEAN]
    /\ remoteInfo \in [ppk : {Null, OldPpk}]
    /\ masterPassword \in Passwords \cup {""}
    /\ NoCalls
    /\ kp = <<>>
    /\ env = NoEnvelope
    /\ mk = encryptWithPassword(<<>>, "pw1")
    /\ mkPlain = <<>>
    /\ mkHist = <<Made("none", 0), Made("encryptWithPassword", 0)>>
    /\ res = NoResult

\* Calls that interleave at their awaits
NextConc ==
    \/ \E t \in 1..MaxTasks, y \in GenOutcomes, now \in Times, F \in FaultSets :
          CallSetPpkIfNotExist(t, y, now, F)
    \/ \E t \in 1..MaxTasks, p \in Passwords, y \in GenOutcomes, now \in Times, F \in FaultSets :
          CallGenerateKeyPairAndSave(t, p, y, now, F)
    \/ \E t \in 1..MaxTasks : Encrypted(t)
    \/ \E t \in 1..MaxTasks : AssignAndSave(t)

SpecConc == InitWorld /\ [][NextConc]_vars

\* Calls of setPpkIfNotExist made one after the other, each awaited
NextSeq ==
    \/ \E t \in 1..MaxTasks, y \in GenOutcomes, now \in Times, F \in FaultSets :
          InFlight = {} /\ CallSetPpkIfNotExist(t, y, now, F)
    \/ \E t \in 1..MaxTasks : Encrypted(t)
    \/ \E t \in 1..MaxTasks : AssignAndSave(t)

SpecSeq == InitWorld /\ [][NextSeq]_vars


(***************************************************************************)
(* Properties                                                              *)
(***************************************************************************)
Invoked(tr, fn) == \E k \in 1..Len(tr) : tr[k].fn = fn

Failed(tr) == \E k \in 1..Len(tr) : tr[k].out \in {"fault", "error"}

WellFormed(text) == text.syntax = "object" /\ text.fields = EnvelopeFields

\* C1: decrypt of a well-formed envelope whose ppkId is not the handler's id
\* fails with the key mismatch error that names both ids, and the asymmetric
\* decrypt is not invoked (full and public-key-only handles alike).
C1_KeyMismatch ==
    (res.op = "decrypt" /\ WellFormed(res.text) /\ res.text.ppkId # kp[res.slot].ppk.id)
        => /\ ~res.ok
           /\ res.val = KeyMismatch(res.text.ppkId, kp[res.slot].ppk.id)
           /\ ~Invoked(res.trace, "rsa.decrypt")

\* handler(k2).decrypt(handler(k1).encrypt(b)) with k1 # k2 has been tried
C1_Witness ==
    /\ res.op = "decrypt"
    /\ env.slot # 0
    /\ res.text = env.text
    /\ res.slot # env.slot
    /\ res.kind = "full"
    /\ ~res.ok

\* C2: the envelope handler(k).encrypt(b) yields carries k.id as ppkId, and
\* handler(k).decrypt of it, over the full handle, returns exactly b.
C2_RoundTrip ==
    /\ env.slot # 0 =>
          /\ "ppkId" \in env.text.fields
          /\ env.text.ppkId = kp[env.slot].ppk.id
    /\ (res.op = "decrypt" /\ res.kind = "full" /\ env.slot # 0
            /\ res.slot = env.slot /\ res.text = env.text)
          => (res.ok /\ res.val = env.b)

C2_Witness ==
    /\ res.op = "decrypt"
    /\ res.kind = "full"
    /\ env.slot # 0
    /\ res.slot = env.slot
    /\ res.text = env.text
    /\ Len(env.b) = MaxLen
    /\ res.ok

\* C9 (as stated): decrypt of a text that is not a well-formed envelope fails
\* with an error that is not the key mismatch error, without invoking the
\* asymmetric decrypt.
C9_MalformedEnvelope ==
    (res.op = "decrypt" /\ ~WellFormed(res.text))
        => /\ ~res.ok
           /\ res.val.error # "Needs private key"
           /\ ~Invoked(res.trace, "rsa.decrypt")

\* C3: ppkPasswordIsValid(generateKeyPair(p), q) returns true when q = p and
\* false, not an error, when q # p.
C3_PasswordIsValid ==
    (res.op = "ppkPasswordIsValid" /\ res.slot # 0)
        => (res.ok /\ res.val = (res.password = kp[res.slot].pw))

C3_Witness ==
    /\ res.op = "ppkPasswordIsValid"
    /\ res.slot # 0
    /\ res.password # kp[res.slot].pw
    /\ res.ok
    /\ res.val = FALSE

PasswordToKey == "reencryptFromPasswordToPublicKey"

KeyToPassword == "reencryptFromPublicKeyToPassword"

\* C4: the master key that reencryptFromPasswordToPublicKey returns for a
\* password-protected master key of content c and target k decrypts to c
\* through ppkDecryptMasterKeyContent with k and k's password; the operation
\* loads no private key and decrypts nothing with a key pair's password.
C4_PasswordToPublicKey ==
    /\ (mkHist[1].op = "encryptWithPassword" /\ mkHist[2].op = PasswordToKey) =>
          LET k == kp[mkHist[2].slot]
              d == ppkDecryptMasterKeyContent(mk, k.ppk, k.pw, <<>>, {})
          IN /\ d.ok
             /\ d.val = mkPlain
             /\ (res.op = "ppkDecryptMasterKeyContent" /\ res.slot = mkHist[2].slot
                     /\ res.password = k.pw)
                   => (res.ok /\ res.val = mkPlain)
    /\ res.op = PasswordToKey =>
          /\ ~Invoked(res.trace, "loadPpk")
          /\ ~Invoked(res.trace, "service.decrypt")
          /\ ~Invoked(res.trace, "rsa.decrypt")

C4_Witness ==
    /\ mkHist[1].op = "encryptWithPassword"
    /\ mkHist[2].op = PasswordToKey
    /\ res.op = "ppkDecryptMasterKeyContent"
    /\ res.slot = mkHist[2].slot
    /\ res.ok
    /\ Len(mkPlain) = MaxLen

\* C5: reencryptFromPasswordToPublicKey followed by
\* reencryptFromPublicKeyToPassword with a new password yields a master key
\* that the plain password scheme decrypts, under the new password, to the
\* original content.
C5_Symmetry ==
    (mkHist[1].op = PasswordToKey /\ mkHist[2].op = KeyToPassword
         /\ res.op = KeyToPassword /\ res.ok)
        => LET d == DecryptMasterKeyContent(mk, res.password, NoHandler, <<>>, {})
           IN /\ mk.encryption_method # Custom
              /\ d.ok
              /\ d.val = mkPlain

C5_Witness ==
    /\ mkHist[1].op = PasswordToKey
    /\ mkHist[2].op = KeyToPassword
    /\ res.op = KeyToPassword
    /\ res.ok
    /\ Len(mkPlain) = MaxLen

\* C7: no operation calls a collaborator again after a call of it failed; an
\* operation other than ppkPasswordIsValid ends in an error when a collaborator
\* call it made failed; ppkPasswordIsValid returns false in that case.
NoRetry(tr) ==
    \A i \in 1..Len(tr), j \in 1..Len(tr) :
        (i < j /\ tr[i].fn = tr[j].fn) => tr[i].out \in {"ok", "enter"}

C7_Propagation ==
    res.op # "none" =>
        /\ NoRetry(res.trace)
        /\ (res.op # "ppkPasswordIsValid" /\ Failed(res.trace)) => ~res.ok
        /\ (res.op = "ppkPasswordIsValid" /\ res.slot # 0)
              => (res.ok /\ res.val = ~Failed(res.trace))

C7_Witness ==
    /\ res.op = KeyToPassword
    /\ Invoked(res.trace, "service.decryptMasterKeyContent")
    /\ Failed(res.trace)
    /\ ~res.ok

Loads(tr) == Cardinality({k \in 1..Len(tr) : tr[k].fn \in {"loadPpk", "loadPublicKey"}})

\* C8 (as stated): every operation performs at most one asymmetric key load.
C8_AtMostOneLoad == res.op # "none" => Loads(res.trace) <= 1

\* C8 (amended): every operation performs at most one asymmetric key load,
\* except ppkReencryptMasterKey, which performs at most two: one loadPublicKey
\* and one loadPpk.
C8_LoadsPerOperation ==
    res.op # "none" =>
        IF res.op = "ppkReencryptMasterKey"
        THEN /\ Loads(res.trace) <= 2
             /\ \A i \in 1..Len(res.trace), j \in 1..Len(res.trace) :
                   (i < j /\ res.trace[i].out = "enter" /\ res.trace[j].out = "enter")
                       => res.trace[i].fn # res.trace[j].fn
        ELSE Loads(res.trace) <= 1

C8_Witness ==
    /\ res.op = "ppkReencryptMasterKey"
    /\ res.ok
    /\ Loads(res.trace) = 2

Pre(e) == e.localPpk = Null /\ e.remotePpk = Null /\ e.activeMasterKey /\ e.password # ""

Done(t) == tasks[t].pc = "done"

\* C6: a completed call of setPpkIfNotExist has saved a key pair only if at
\* its entry neither side had a ppk, there was an active master key and a
\* master password; otherwise it left localInfo.ppk as it was and saved
\* nothing; and of calls made one after the other at most one saves, every
\* later one being a no-op.
C6_SetPpkIfNotExist ==
    /\ Len(saved) <= 1
    /\ \A t \in 1..MaxTasks :
          Done(t) =>
             /\ tasks[t].out = "saved" => Pre(tasks[t].entry)
             /\ ~Pre(tasks[t].entry) =>
                   /\ tasks[t].out = "noop"
                   /\ localInfo.ppk = tasks[t].entry.localPpk
                   /\ Len(saved) = tasks[t].entry.saves
             /\ \A u \in 1..MaxTasks :
                   (Done(u) /\ tasks[t].out = "saved" /\ tasks[u].order > tasks[t].order)
                       => tasks[u].out = "noop"

C6_Witness ==
    \E t \in 1..MaxTasks, u \in 1..MaxTasks :
        /\ Done(t) /\ Done(u)
        /\ tasks[t].out = "saved"
        /\ tasks[u].order > tasks[t].order
        /\ tasks[u].out = "noop"

\* C10 (as stated), for calls of setPpkIfNotExist: once the calls have
\* finished, at most one key pair was generated and assigned, and the key pair
\* each call saved is the one localInfo.ppk holds.
C10_NoHazard ==
    ((\A t \in 1..MaxTasks : tasks[t].pc \in {"idle", "done"})
         /\ (\A t \in Begun : tasks[t].kind = "setPpkIfNotExist"))
        => /\ Len(saved) <= 1
           /\ \A k \in 1..Len(saved) : saved[k].id = localInfo.ppk.id


====
